---- MODULE Spec2Model ----
(***************************************************************************)
(* Model of notebooks/01.data_downloader.ipynb: the characteristics        *)
(* pipeline (cross-sectional rank transform, two-pass imputation), the     *)
(* CRSP return preparation (per-entity lag of market value), the macro     *)
(* predictor preparation (one-month forward shift of the period key) and   *)
(* the main block that runs the three and writes three files.              *)
(*                                                                         *)
(* Floating-point values are modelled as exact rationals <<num, den>> in   *)
(* lowest terms with den > 0; NaN (pandas' missing value) is <<0, 0>>.     *)
(***************************************************************************)
EXTENDS Integers, Sequences, FiniteSets, TLC

VARIABLES
  rpc, series, result,                          \* _rank_transform on one group
  cpc, raw, df, pre,                            \* prepare_characteristics_data
  kpc, crsp_df, ff_df, kdf, final_df,           \* prepare_crsp_data
  mpc, macro_raw, macro_processed, macro_lagged,\* prepare_macro_data
  pc, db, files, caught                         \* main block

rankVars  == <<rpc, series, result>>
charVars  == <<cpc, raw, df, pre>>
crspVars  == <<kpc, crsp_df, ff_df, kdf, final_df>>
macroVars == <<mpc, macro_raw, macro_processed, macro_lagged>>
mainVars  == <<pc, db, files, caught>>
vars == <<rankVars, charVars, crspVars, macroVars, mainVars>>

----------------------------------------------------------------------------
(* Bounds of the model.                                                    *)

\* longest group handed to _rank_transform, and the largest raw value in it
MaxLen == 5

----------------------------------------------------------------------------
(* float64 values as exact rationals.                                      *)

NaN == <<0, 0>>
IsNaN(x) == x[2] = 0
NotNa(x) == x[2] # 0

Abs(n) == IF n < 0 THEN -n ELSE n

RECURSIVE GCD(_, _)
GCD(a, b) == IF b = 0 THEN a ELSE GCD(b, a % b)

RNorm(n, d) ==
  IF d = 0 THEN NaN
  ELSE LET g == GCD(Abs(n), Abs(d))
           s == IF d < 0 THEN -1 ELSE 1
       IN  <<(s * n) \div g, (s * d) \div g>>

Num(k) == <<k, 1>>
Half == <<1, 2>>

RAdd(a, b) == IF IsNaN(a) \/ IsNaN(b) THEN NaN
              ELSE RNorm(a[1] * b[2] + b[1] * a[2], a[2] * b[2])
RSub(a, b) == IF IsNaN(a) \/ IsNaN(b) THEN NaN
              ELSE RNorm(a[1] * b[2] - b[1] * a[2], a[2] * b[2])
RMul(a, b) == IF IsNaN(a) \/ IsNaN(b) THEN NaN
              ELSE RNorm(a[1] * b[1], a[2] * b[2])
\* 0/0 is NaN in float arithmetic; a non-zero numerator over zero is not
\* produced by any caller (the dividend rank-1 is 0 whenever n_valid-1 is 0)
RDiv(a, b) == IF IsNaN(a) \/ IsNaN(b) THEN NaN
              ELSE RNorm(a[1] * b[2], a[2] * b[1])
\* comparisons with NaN are false, as in IEEE 754
RLess(a, b) == NotNa(a) /\ NotNa(b) /\ a[1] * b[2] < b[1] * a[2]
RLeq(a, b)  == NotNa(a) /\ NotNa(b) /\ a[1] * b[2] <= b[1] * a[2]

RECURSIVE SumSet(_)
SumSet(S) == IF S = {} THEN 0
             ELSE LET x == CHOOSE y \in S : TRUE IN x + SumSet(S \ {x})

----------------------------------------------------------------------------
(* pandas Series helpers: a Series is a sequence of values.                *)

\* Series.notna().sum()
NValid(s) == Cardinality({i \in DOMAIN s : NotNa(s[i])})

\* Series.dropna(): the non-missing values in order
RECURSIVE DropNa(_)
DropNa(s) == IF s = <<>> THEN <<>>
             ELSE IF IsNaN(Head(s)) THEN DropNa(Tail(s))
             ELSE <<Head(s)>> \o DropNa(Tail(s))

RECURSIVE Insert(_, _)
Insert(x, sq) == IF sq = <<>> THEN <<x>>
                 ELSE IF RLess(x, Head(sq)) THEN <<x>> \o sq
                 ELSE <<Head(sq)>> \o Insert(x, Tail(sq))

\* ascending sort of a sequence of non-missing values
RECURSIVE SortValues(_)
SortValues(sq) == IF sq = <<>> THEN <<>>
                  ELSE Insert(Head(sq), SortValues(Tail(sq)))

\* Series.rank(na_option='keep') with the default method='average': the
\* non-missing values are sorted, each gets its 1-based position, and the
\* members of a run of equal values all get the mean of the run's positions;
\* a missing value keeps NaN.
RankMinTies(s) ==
  LET sv == SortValues(DropNa(s))
  IN  [i \in DOMAIN s |->
        IF IsNaN(s[i]) THEN NaN
        ELSE LET P == {p \in DOMAIN sv : sv[p] = s[i]}
             IN  Num(CHOOSE p \in P : \A q \in P : p <= q)]

Rank(s) ==
  LET sv == SortValues(DropNa(s))
  IN  [i \in DOMAIN s |->
        IF IsNaN(s[i]) THEN NaN
        ELSE LET P == {p \in DOMAIN sv : sv[p] = s[i]}
             IN  RNorm(SumSet(P), Cardinality(P))]

\* _rank_transform(series)
rank_transform_NoGuard(s) ==
  LET n_valid == NValid(s)
      ranked_series == Rank(s)
  IN  [i \in DOMAIN s |->
        RMul(Num(2), RSub(RDiv(RSub(ranked_series[i], Num(1)),
                               Num(n_valid - 1)), Half))]

rank_transform(s) ==
  LET n_valid == NValid(s)
  IN  IF n_valid <= 1 THEN s
      ELSE LET ranked_series == Rank(s)
           IN  [i \in DOMAIN s |->
                 RMul(Num(2), RSub(RDiv(RSub(ranked_series[i], Num(1)),
                                        Num(n_valid - 1)), Half))]

----------------------------------------------------------------------------
(* Calendar dates (pandas Timestamps at day resolution): [y, m, d].        *)

Date(y, m, d) == [y |-> y, m |-> m, d |-> d]

IsLeap(y) == (y % 4 = 0 /\ y % 100 # 0) \/ y % 400 = 0

DaysInMonth(y, m) ==
  IF m = 2 THEN (IF IsLeap(y) THEN 29 ELSE 28)
  ELSE IF m \in {4, 6, 9, 11} THEN 30 ELSE 31

\* ts + pd.offsets.MonthEnd(0): roll forward to the month's last day (a date
\* already on it stays)
MonthEnd0(t) == Date(t.y, t.m, DaysInMonth(t.y, t.m))

\* ts + pd.DateOffset(months=1): relativedelta adds one to the month
\* (carrying into the year) and clips the day to the new month's length
DateOffsetMonths1_NoCarry(t) ==
  LET m2 == IF t.m = 12 THEN 1 ELSE t.m + 1
      dim == DaysInMonth(t.y, m2)
  IN  Date(t.y, m2, IF t.d > dim THEN dim ELSE t.d)

DateOffsetMonths1(t) ==
  LET y2 == IF t.m = 12 THEN t.y + 1 ELSE t.y
      m2 == IF t.m = 12 THEN 1 ELSE t.m + 1
      dim == DaysInMonth(y2, m2)
  IN  Date(y2, m2, IF t.d > dim THEN dim ELSE t.d)

\* pd.to_datetime(yyyymm, format="%Y%m"): the first day of that month
ToDatetimeYm(yyyymm) == Date(yyyymm \div 100, yyyymm % 100, 1)

----------------------------------------------------------------------------
(* Step 1: prepare_characteristics_data, from the rank transform on.       *)
(* A table is a sequence of rows [permno, month, x]; x is one              *)
(* characteristic column (the transforms act on each column separately).   *)

\* entities with a row in the first month, and in the second month
NumEntities == 3
NumLate == 2

\* raw characteristic values of the download
CharVals == {Num(10), Num(20), Num(30)}
OptCharVals == CharVals \cup {NaN}

\* DATE column of the download, parsed with format='%Y%m%d'
CharDates == <<Date(1958, 1, 31), Date(1958, 2, 28)>>

\* indices of the rows of t whose month is m, ascending
GroupIdxNoKey(t, m) ==
  LET RECURSIVE Asc(_)
      Asc(R) == IF R = {} THEN <<>>
                ELSE LET lo == CHOOSE i \in R : \A j \in R : i <= j
                     IN  <<lo>> \o Asc(R \ {lo})
  IN  Asc(DOMAIN t)

GroupIdx(t, m) ==
  LET S == {i \in DOMAIN t : t[i].month = m}
      RECURSIVE Asc(_)
      Asc(R) == IF R = {} THEN <<>>
                ELSE LET lo == CHOOSE i \in R : \A j \in R : i <= j
                     IN  <<lo>> \o Asc(R \ {lo})
  IN  Asc(S)

\* df.groupby('month')[col]: the column of row i's month as a Series in row
\* order, and row i's position in it
GroupSeries(t, i) ==
  LET g == GroupIdx(t, t[i].month) IN [k \in DOMAIN g |-> t[g[k]].x]

GroupPos(t, i) ==
  LET g == GroupIdx(t, t[i].month) IN CHOOSE k \in DOMAIN g : g[k] = i

\* df.groupby('month')[cols].transform(_rank_transform), written back
RankTransformByMonth(t) ==
  [i \in DOMAIN t |->
    [t[i] EXCEPT !.x = rank_transform(GroupSeries(t, i))[GroupPos(t, i)]]]

\* Series.median(): NaN for no data, else the middle of the sorted
\* non-missing values, the mean of the two middle ones for an even count
MedianLower(s) ==
  LET sv == SortValues(DropNa(s))
      n == Len(sv)
  IN  IF n = 0 THEN NaN ELSE sv[(n + 1) \div 2]

Median(s) ==
  LET sv == SortValues(DropNa(s))
      n == Len(sv)
  IN  IF n = 0 THEN NaN
      ELSE IF n % 2 = 1 THEN sv[(n + 1) \div 2]
      ELSE RMul(Half, RAdd(sv[n \div 2], sv[n \div 2 + 1]))

\* lambda x: x.fillna(x.median())
FillNaMedian(s) ==
  LET med == Median(s)
  IN  [i \in DOMAIN s |-> IF IsNaN(s[i]) THEN med ELSE s[i]]

\* df[cols].fillna(0)
FillNaZeroSkip(t) == t

FillNaZero(t) ==
  [i \in DOMAIN t |-> IF IsNaN(t[i].x) THEN [t[i] EXCEPT !.x = Num(0)]
                      ELSE t[i]]

\* df.groupby('month')[cols].transform(lambda x: x.fillna(x.median()))
FillNaMedianByMonth(t) ==
  [i \in DOMAIN t |->
    [t[i] EXCEPT !.x = FillNaMedian(GroupSeries(t, i))[GroupPos(t, i)]]]

\* the two imputation passes (lines 120-121) as one function of a table
Imputer(t) == FillNaZero(FillNaMedianByMonth(t))

\* rows of the download for the month with DATE d: entities 1..Len(v)
DownloadRows(d, v) ==
  [e \in DOMAIN v |-> [permno |-> e, DATE |-> d, x |-> v[e]]]

IdleRank  == rpc = "idle" /\ series = <<>> /\ result = <<>>
IdleChar  == cpc = "idle" /\ raw = <<>> /\ df = <<>> /\ pre = <<>>
IdleCrsp  == kpc = "idle" /\ crsp_df = <<>> /\ ff_df = <<>> /\ kdf = <<>>
             /\ final_df = <<>>
IdleMacro == mpc = "idle" /\ macro_raw = <<>> /\ macro_processed = <<>>
             /\ macro_lagged = <<>>
IdleMain  == pc = "idle" /\ db = "None" /\ files = <<>> /\ caught = "none"

\* the table read from datashare.csv (lines 96-102)
InitChar ==
  /\ \E k1 \in 1..NumEntities, k2 \in 1..NumLate :
       \E v1 \in [1..k1 -> OptCharVals], v2 \in [1..k2 -> OptCharVals] :
          raw = DownloadRows(CharDates[1], v1) \o DownloadRows(CharDates[2], v2)
  /\ cpc = "loaded" /\ df = <<>> /\ pre = <<>>
  /\ IdleRank /\ IdleCrsp /\ IdleMacro /\ IdleMain

\* lines 104-114: DATE becomes the month-end 'month' key
CharMonthKey ==
  /\ cpc = "loaded"
  /\ df' = [i \in DOMAIN raw |->
             [permno |-> raw[i].permno, month |-> MonthEnd0(raw[i].DATE),
              x |-> raw[i].x]]
  /\ cpc' = "keyed"
  /\ UNCHANGED <<raw, pre, rankVars, crspVars, macroVars, mainVars>>

\* line 117
CharRankTransform ==
  /\ cpc = "keyed"
  /\ df' = RankTransformByMonth(df)
  /\ pre' = df
  /\ cpc' = "ranked"
  /\ UNCHANGED <<raw, rankVars, crspVars, macroVars, mainVars>>

\* line 120
CharImputeMedian ==
  /\ cpc = "ranked"
  /\ df' = FillNaMedianByMonth(df)
  /\ pre' = df
  /\ cpc' = "median_filled"
  /\ UNCHANGED <<raw, rankVars, crspVars, macroVars, mainVars>>

\* line 121
CharImputeZero ==
  /\ cpc = "median_filled"
  /\ df' = FillNaZero(df)
  /\ cpc' = "imputed"
  /\ UNCHANGED <<raw, pre, rankVars, crspVars, macroVars, mainVars>>

NextChar == CharMonthKey \/ CharRankTransform \/ CharImputeMedian \/ CharImputeZero

SpecChar == InitChar /\ [][NextChar]_vars

----------------------------------------------------------------------------
(* _rank_transform as a function of one group.                             *)

RankVals == {Num(k) : k \in 1..MaxLen}

InitRank ==
  /\ \E n \in 0..MaxLen : series \in [1..n -> RankVals \cup {NaN}]
  /\ rpc = "in" /\ result = <<>>
  /\ IdleChar /\ IdleCrsp /\ IdleMacro /\ IdleMain

ApplyRankTransform ==
  /\ rpc = "in"
  /\ result' = rank_transform(series)
  /\ rpc' = "out"
  /\ UNCHANGED <<series, charVars, crspVars, macroVars, mainVars>>

NextRank == ApplyRankTransform

SpecRank == InitRank /\ [][NextRank]_vars

----------------------------------------------------------------------------
(* Properties of the rank transform and the imputer.                       *)

MinusOne == <<-1, 1>>
PlusOne == <<1, 1>>
InUnitRange(x) == RLeq(MinusOne, x) /\ RLeq(x, PlusOne)

\* rows of table t in the same month as row i
SameMonth(t, i) == {j \in DOMAIN t : t[j].month = t[i].month}
\* number of non-missing values of row i's (month, field) group
GroupCount(t, i) == Cardinality({j \in SameMonth(t, i) : NotNa(t[j].x)})

\* the value 2*((r-1)/(n-1) - 0.5) = (2r - n - 1)/(n - 1) for the value at
\* index i of the collection of values x (a function), where n counts the
\* non-missing values over the index set S and r is the average-tie rank:
\* (number smaller) + (number equal + 1)/2
RefNormalized(x, S, i) ==
  LET n == Cardinality({j \in S : NotNa(x[j])})
      less == Cardinality({j \in S : RLess(x[j], x[i])})
      eq == Cardinality({j \in S : NotNa(x[j]) /\ x[j] = x[i]})
  IN  RNorm((2 * less + eq + 1) - n - 1, n - 1)

FiveOut == << <<-1, 1>>, <<-1, 2>>, <<0, 1>>, <<1, 2>>, <<1, 1>> >>

FiveDistinct(s) ==
  /\ Len(s) = 5
  /\ \A i \in DOMAIN s : NotNa(s[i])
  /\ \A i, j \in DOMAIN s : i # j => s[i] # s[j]

\* C2: _rank_transform equals the reference operator on every group: with n
\* non-missing values, n >= 2 maps each non-missing v to 2*((r-1)/(n-1)-0.5)
\* with r the average-tie rank and keeps missing values missing, n <= 1
\* returns the group unchanged, and 5 distinct values map to -1, -0.5, 0,
\* 0.5, 1 in ascending order of the inputs.
C2_RankTransformIsReference ==
  rpc = "out" =>
    /\ DOMAIN result = DOMAIN series
    /\ NValid(series) <= 1 => result = series
    /\ NValid(series) >= 2 =>
         \A i \in DOMAIN series :
            /\ IsNaN(series[i]) => IsNaN(result[i])
            /\ NotNa(series[i]) =>
                 result[i] = RefNormalized(series, DOMAIN series, i)
    /\ FiveDistinct(series) =>
         \A i \in DOMAIN series :
            result[i] =
              FiveOut[1 + Cardinality({j \in DOMAIN series :
                                         RLess(series[j], series[i])})]

C2_Witness ==
  /\ rpc = "out"
  /\ FiveDistinct(series)
  /\ series[1] = Num(2) /\ result[1] = <<-1, 2>>

\* C1 as stated: after the rank transform of every (month, field) group,
\* every non-missing output lies in [-1, 1], and within a group a < b gives
\* out(a) < out(b) and a = b gives out(a) = out(b).
C1_AllGroupsInUnitRange ==
  cpc = "ranked" =>
    \A i \in DOMAIN df :
       /\ NotNa(df[i].x) => InUnitRange(df[i].x)
       /\ \A j \in SameMonth(pre, i) :
            (NotNa(pre[i].x) /\ NotNa(pre[j].x)) =>
               /\ RLess(pre[i].x, pre[j].x) => RLess(df[i].x, df[j].x)
               /\ pre[i].x = pre[j].x => df[i].x = df[j].x

\* C1 amended: in a group with at least two non-missing values every
\* non-missing output lies in [-1, 1]; a group with at most one non-missing
\* value is returned unchanged (its value keeps its raw magnitude); in every
\* group the order of the non-missing inputs is kept and ties stay equal.
C1_UnitRangeForTwoOrMore ==
  cpc = "ranked" =>
    /\ DOMAIN df = DOMAIN pre
    /\ \A i \in DOMAIN df :
         /\ df[i].month = pre[i].month /\ df[i].permno = pre[i].permno
         /\ NotNa(df[i].x) <=> NotNa(pre[i].x)
         /\ GroupCount(pre, i) >= 2 =>
              (NotNa(df[i].x) => InUnitRange(df[i].x))
         /\ GroupCount(pre, i) <= 1 => df[i].x = pre[i].x
         /\ \A j \in SameMonth(pre, i) :
              (NotNa(pre[i].x) /\ NotNa(pre[j].x)) =>
                 /\ RLess(pre[i].x, pre[j].x) => RLess(df[i].x, df[j].x)
                 /\ pre[i].x = pre[j].x => df[i].x = df[j].x

\* a lone raw value outside [-1, 1] beside a group with a tie and a larger
\* value
C1_Witness ==
  /\ cpc = "ranked"
  /\ \E i \in DOMAIN df :
        GroupCount(pre, i) = 1 /\ NotNa(df[i].x) /\ ~InUnitRange(df[i].x)
  /\ \E i, j, k \in DOMAIN df :
        /\ i # j /\ j \in SameMonth(pre, i) /\ k \in SameMonth(pre, i)
        /\ NotNa(pre[i].x) /\ pre[i].x = pre[j].x /\ RLess(pre[i].x, pre[k].x)
        /\ df[k].x = PlusOne

\* C3: after the two imputation passes no characteristic value of any row
\* is missing, also when a whole (month, field) group had no data.
C3_NoMissingAfterImputation ==
  cpc = "imputed" => \A i \in DOMAIN df : NotNa(df[i].x)

C3_Witness ==
  /\ cpc = "imputed"
  /\ \E i \in DOMAIN raw :
        /\ \A j \in DOMAIN raw : raw[j].DATE = raw[i].DATE => IsNaN(raw[j].x)
        /\ df[i].x = Num(0)

\* v is the k-th smallest of the non-missing values of t over the rows S
IsKth(t, S, v, k) ==
  /\ Cardinality({j \in S : RLess(t[j].x, v)}) < k
  /\ k <= Cardinality({j \in S : RLeq(t[j].x, v)})

\* m is the median of the non-missing values of t over the rows S: the mean
\* of the lower and the upper middle order statistics
IsMedianOf(t, S, m) ==
  LET V == {j \in S : NotNa(t[j].x)}
      n == Cardinality(V)
  IN  \E a, b \in V :
         /\ IsKth(t, S, t[a].x, (n + 1) \div 2)
         /\ IsKth(t, S, t[b].x, n \div 2 + 1)
         /\ RAdd(m, m) = RAdd(t[a].x, t[b].x)

\* C4: in a group with at least one non-missing value, pass 1 fills every
\* missing value with the median of the values that were non-missing before
\* the pass and leaves the others unchanged; the two-pass imputer applied
\* to its own output changes nothing.
C4_MedianFillAndIdempotent ==
  /\ cpc = "median_filled" =>
       /\ DOMAIN df = DOMAIN pre
       /\ \A i \in DOMAIN df :
            GroupCount(pre, i) >= 1 =>
               /\ NotNa(pre[i].x) => df[i].x = pre[i].x
               /\ IsNaN(pre[i].x) =>
                    NotNa(df[i].x) /\ IsMedianOf(pre, SameMonth(pre, i), df[i].x)
  /\ cpc = "imputed" => Imputer(df) = df

\* a filled value that is the mean of two different middle values
C4_Witness ==
  /\ cpc = "median_filled"
  /\ \E i \in DOMAIN df :
        /\ IsNaN(pre[i].x) /\ NotNa(df[i].x)
        /\ \A j \in SameMonth(pre, i) : pre[j].x # df[i].x

\* [(A,Jan,10),(B,Jan,20),(A,Feb,None),(B,Feb,30)] with A = 1, B = 2
ScenarioIn == DownloadRows(CharDates[1], <<Num(10), Num(20)>>)
                \o DownloadRows(CharDates[2], <<NaN, Num(30)>>)
ScenarioOut == <<MinusOne, PlusOne, Num(30), Num(30)>>

RawSameDate(i) == {j \in DOMAIN raw : raw[j].DATE = raw[i].DATE}
RawCount(i) == Cardinality({j \in RawSameDate(i) : NotNa(raw[j].x)})

\* C5: end to end (rank transform, then the two passes), every row of a
\* group with exactly one non-missing raw value v ends with v; a group of
\* the same table with n >= 2 non-missing raw values is normalized on its
\* own; and [(A,Jan,10),(B,Jan,20),(A,Feb,None),(B,Feb,30)] gives
\* Jan A=-1, Jan B=1, Feb A=30, Feb B=30.
C5_EndToEnd ==
  cpc = "imputed" =>
    /\ DOMAIN df = DOMAIN raw
    /\ \A i \in DOMAIN raw :
         /\ RawCount(i) = 1 =>
              \E j \in RawSameDate(i) : NotNa(raw[j].x) /\ df[i].x = raw[j].x
         /\ (RawCount(i) >= 2 /\ NotNa(raw[i].x)) =>
              df[i].x = RefNormalized([j \in DOMAIN raw |-> raw[j].x],
                                      RawSameDate(i), i)
    /\ raw = ScenarioIn => [i \in DOMAIN df |-> df[i].x] = ScenarioOut

C5_Witness ==
  /\ cpc = "imputed"
  /\ raw = ScenarioIn
  /\ df[3].x = Num(30) /\ df[1].x = MinusOne

----------------------------------------------------------------------------
(* Step 3: prepare_macro_data.  A raw row is [yyyymm, tbl, lty]; of the    *)
(* eight predictors the model carries tbl (a raw column passed through)    *)
(* and tms = lty - tbl (a derived one).                                    *)

\* rows of the Welch-Goyal sheet read in one run
MaxMacroRows == 2

\* years of the sheet (1871-) that cover a century non-leap year, common
\* years, a leap year and a year divisible by 400
MacroYears == {1900, 1957, 1960, 2000}
MacroStarts == {y * 100 + m : y \in MacroYears, m \in 1..12}
MacroTbl == {NaN, Num(1), Num(2)}
MacroLty == {NaN, Num(3)}

\* the yyyymm key k months after ym
RECURSIVE YmPlus(_, _)
YmPlus(ym, k) ==
  IF k = 0 THEN ym
  ELSE YmPlus(IF ym % 100 = 12 THEN ym + 89 ELSE ym + 1, k - 1)

\* the sheet as downloaded (lines 218-220): consecutive months
InitMacro ==
  /\ \E n \in 1..MaxMacroRows, start \in MacroStarts :
       \E tbl \in [1..n -> MacroTbl], lty \in [1..n -> MacroLty] :
          macro_raw = [i \in 1..n |->
                         [yyyymm |-> YmPlus(start, i - 1),
                          tbl |-> tbl[i], lty |-> lty[i]]]
  /\ mpc = "downloaded" /\ macro_processed = <<>> /\ macro_lagged = <<>>
  /\ IdleRank /\ IdleChar /\ IdleCrsp /\ IdleMain

\* lines 222-233: month key at month end, derived predictors, selection
MacroProcess ==
  /\ mpc = "downloaded"
  /\ macro_processed' =
       [i \in DOMAIN macro_raw |->
          [month |-> MonthEnd0(ToDatetimeYm(macro_raw[i].yyyymm)),
           tbl |-> macro_raw[i].tbl,
           tms |-> RSub(macro_raw[i].lty, macro_raw[i].tbl)]]
  /\ mpc' = "processed"
  /\ UNCHANGED <<macro_raw, macro_lagged, rankVars, charVars, crspVars, mainVars>>

\* lines 235-239: the copy with the month key moved one month forward and
\* the predictor columns renamed macro_*
MacroLag ==
  /\ mpc = "processed"
  /\ macro_lagged' =
       [i \in DOMAIN macro_processed |->
          [month |-> DateOffsetMonths1(macro_processed[i].month),
           macro_tbl |-> macro_processed[i].tbl,
           macro_tms |-> macro_processed[i].tms]]
  /\ mpc' = "lagged"
  /\ UNCHANGED <<macro_raw, macro_processed, rankVars, charVars, crspVars, mainVars>>

NextMacro == MacroProcess \/ MacroLag

SpecMacro == InitMacro /\ [][NextMacro]_vars

IsMonthEnd(t) == t.d = DaysInMonth(t.y, t.m)

\* C6: in every output table (characteristics, returns, lagged macro
\* predictors) every period value is the last calendar day of its month; in
\* particular the shifted macro key is the last day of month m+1.
C6_PeriodsAreMonthEnds ==
  /\ cpc \in {"keyed", "ranked", "median_filled", "imputed"} =>
       \A i \in DOMAIN df : IsMonthEnd(df[i].month)
  /\ kpc = "done" => \A i \in DOMAIN final_df : IsMonthEnd(final_df[i].month)
  /\ mpc = "lagged" =>
       \A i \in DOMAIN macro_lagged : IsMonthEnd(macro_lagged[i].month)

\* months since year 0 of a yyyymm key, and of a date
YmIndex(ym) == (ym \div 100) * 12 + (ym % 100)
MonthIndex(t) == t.y * 12 + t.m

\* C7: with the one-month lag, each predictor value attached to period p of
\* the lagged table is the unlagged table's value at the calendar month
\* before p, and every source row yields exactly one output row (a missing
\* source value stays missing).
C7_LagOneMonth ==
  mpc = "lagged" =>
    /\ Len(macro_lagged) = Len(macro_raw)
    /\ \A i \in DOMAIN macro_lagged :
         /\ MonthIndex(macro_lagged[i].month) = YmIndex(macro_raw[i].yyyymm) + 1
         /\ \A j \in DOMAIN macro_processed :
              MonthIndex(macro_processed[j].month) + 1
                  = MonthIndex(macro_lagged[i].month) =>
                 /\ j = i
                 /\ macro_lagged[i].macro_tbl = macro_processed[j].tbl
                 /\ macro_lagged[i].macro_tms = macro_processed[j].tms
                 /\ macro_processed[j].tbl = macro_raw[j].tbl

\* a December row with a missing value, lagged into January
C7_Witness ==
  /\ mpc = "lagged"
  /\ \E i \in DOMAIN macro_lagged :
        /\ macro_raw[i].yyyymm % 100 = 12
        /\ macro_lagged[i].month.m = 1
        /\ IsNaN(macro_lagged[i].macro_tbl)
        /\ IsNaN(macro_raw[i].tbl)

----------------------------------------------------------------------------
(* Step 2: prepare_crsp_data.  A fetched row is                            *)
(* [permno, date, ret, prc, shrout]; a risk-free row is [date, rf].        *)

\* months of the sample fetched in one run, from March 1957 (START_DATE)
NumCrspMonths == 3

\* permnos of the fetch, in the order the query returns them
CrspPermnos == <<2, 1>>
NumPermnos == Len(CrspPermnos)

\* what the query returns for one (permno, month): no row, a complete row,
\* or a row whose return is missing
CellKinds == {"absent", "full", "no_ret"}

RAbs(a) == IF IsNaN(a) THEN NaN ELSE <<Abs(a[1]), a[2]>>

DateLess(s, t) ==
  \/ s.y < t.y
  \/ s.y = t.y /\ s.m < t.m
  \/ s.y = t.y /\ s.m = t.m /\ s.d < t.d

\* the fetched row of cell n (latest month first): a month-end trading day,
\* a negative price (a bid/ask average) for permno 1, shares that grow with
\* the month so that every month has its own market value
CrspRow(n, kind) ==
  LET p == CrspPermnos[((n - 1) % NumPermnos) + 1]
      k == NumCrspMonths - ((n - 1) \div NumPermnos)
  IN  [permno |-> p,
       date |-> Date(1957, 2 + k, 28),
       ret |-> IF kind = "no_ret" THEN NaN ELSE <<k, 100>>,
       prc |-> IF p = 1 THEN Num(-2) ELSE Num(3),
       shrout |-> Num(4 + k)]

RECURSIVE CrspRows(_, _)
CrspRows(kinds, n) ==
  IF n > Len(kinds) THEN <<>>
  ELSE IF kinds[n] = "absent" THEN CrspRows(kinds, n + 1)
  ELSE <<CrspRow(n, kinds[n])>> \o CrspRows(kinds, n + 1)

\* ff.factors_monthly: one row per month, dated the first of the month;
\* month `skip` (0: none) has no row
RECURSIVE FfRows(_, _)
FfRows(k, skip) ==
  IF k > NumCrspMonths THEN <<>>
  ELSE IF k = skip THEN FfRows(k + 1, skip)
  ELSE <<[date |-> Date(1957, 2 + k, 1), rf |-> <<1, 400>>]>>
         \o FfRows(k + 1, skip)

\* the two query results (lines 164-170)
InitCrsp ==
  /\ \E kinds \in [1..(NumPermnos * NumCrspMonths) -> CellKinds] :
        crsp_df = CrspRows(kinds, 1)
  /\ \E skip \in {0, 2} : ff_df = FfRows(1, skip)
  /\ kpc = "fetched" /\ kdf = <<>> /\ final_df = <<>>
  /\ IdleRank /\ IdleChar /\ IdleMacro /\ IdleMain

\* pd.merge(crsp_df, ff_df[['month','rf']], on='month', how='left') for ff
\* months that are unique: each left row once, rf missing without a match
MergeLeftRf(l, r) ==
  [i \in DOMAIN l |->
     LET M == {j \in DOMAIN r : r[j].month = l[i].month}
     IN  [permno |-> l[i].permno, month |-> l[i].month, ret |-> l[i].ret,
          prc |-> l[i].prc, shrout |-> l[i].shrout,
          rf |-> IF M = {} THEN NaN ELSE r[CHOOSE j \in M : TRUE].rf]]

\* df.dropna(subset=['ret','rf','prc','shrout'])
RECURSIVE DropNaInputs(_)
DropNaInputs(t) ==
  IF t = <<>> THEN <<>>
  ELSE LET h == Head(t)
       IN  IF IsNaN(h.ret) \/ IsNaN(h.rf) \/ IsNaN(h.prc) \/ IsNaN(h.shrout)
           THEN DropNaInputs(Tail(t))
           ELSE <<h>> \o DropNaInputs(Tail(t))

KeyLess(a, b) ==
  \/ a.permno < b.permno
  \/ a.permno = b.permno /\ DateLess(a.month, b.month)

RECURSIVE InsertRow(_, _)
InsertRow(x, sq) == IF sq = <<>> THEN <<x>>
                    ELSE IF KeyLess(x, Head(sq)) THEN <<x>> \o sq
                    ELSE <<Head(sq)>> \o InsertRow(x, Tail(sq))

\* df.sort_values(by=['permno','month'])
RECURSIVE SortByPermnoMonth(_)
SortByPermnoMonth(t) ==
  IF t = <<>> THEN <<>>
  ELSE InsertRow(Head(t), SortByPermnoMonth(Tail(t)))

\* df.groupby('permno')['mktcap'].shift(1): the mktcap of the previous row
\* of the same permno in row order, missing for the permno's first row
ShiftNoGroup(t) ==
  [i \in DOMAIN t |-> IF i = 1 THEN NaN ELSE t[i - 1].mktcap]

ShiftByPermno(t) ==
  [i \in DOMAIN t |->
     LET P == {j \in DOMAIN t : j < i /\ t[j].permno = t[i].permno}
     IN  IF P = {} THEN NaN
         ELSE t[CHOOSE j \in P : \A q \in P : q <= j].mktcap]

\* df.dropna(subset=['mktcap_lag','ret_excess']) and the column selection
RECURSIVE DropNaOutputs(_)
DropNaOutputs(t) ==
  IF t = <<>> THEN <<>>
  ELSE LET h == Head(t)
       IN  IF IsNaN(h.mktcap_lag) \/ IsNaN(h.ret_excess)
           THEN DropNaOutputs(Tail(t))
           ELSE <<[permno |-> h.permno, month |-> h.month,
                   ret_excess |-> h.ret_excess,
                   mktcap_lag |-> h.mktcap_lag]>> \o DropNaOutputs(Tail(t))

\* lines 173-178: month keys, the left merge, the first dropna
\* (pd.to_numeric leaves the numeric ret column as it is)
CrspMerge ==
  /\ kpc = "fetched"
  /\ LET l == [i \in DOMAIN crsp_df |->
                 [permno |-> crsp_df[i].permno,
                  month |-> MonthEnd0(crsp_df[i].date),
                  ret |-> crsp_df[i].ret, prc |-> crsp_df[i].prc,
                  shrout |-> crsp_df[i].shrout]]
         r == [j \in DOMAIN ff_df |->
                 [month |-> MonthEnd0(ff_df[j].date), rf |-> ff_df[j].rf]]
     IN  kdf' = DropNaInputs(MergeLeftRf(l, r))
  /\ kpc' = "merged"
  /\ UNCHANGED <<crsp_df, ff_df, final_df, rankVars, charVars, macroVars, mainVars>>

\* lines 180-183: mktcap, the sort, the per-permno shift, ret_excess
CrspLag ==
  /\ kpc = "merged"
  /\ LET withCap == [i \in DOMAIN kdf |->
                       [permno |-> kdf[i].permno, month |-> kdf[i].month,
                        ret |-> kdf[i].ret, rf |-> kdf[i].rf,
                        mktcap |-> RMul(RAbs(kdf[i].prc), kdf[i].shrout)]]
         sorted == SortByPermnoMonth(withCap)
         lag == ShiftByPermno(sorted)
     IN  kdf' = [i \in DOMAIN sorted |->
                   [permno |-> sorted[i].permno, month |-> sorted[i].month,
                    mktcap |-> sorted[i].mktcap, mktcap_lag |-> lag[i],
                    ret_excess |-> RSub(sorted[i].ret, sorted[i].rf)]]
  /\ kpc' = "lagged"
  /\ UNCHANGED <<crsp_df, ff_df, final_df, rankVars, charVars, macroVars, mainVars>>

\* lines 185-190
CrspFinal ==
  /\ kpc = "lagged"
  /\ final_df' = DropNaOutputs(kdf)
  /\ kpc' = "done"
  /\ UNCHANGED <<crsp_df, ff_df, kdf, rankVars, charVars, macroVars, mainVars>>

NextCrsp == CrspMerge \/ CrspLag \/ CrspFinal

SpecCrsp == InitCrsp /\ [][NextCrsp]_vars

\* the fetched rows that survive the first dropna: return, price and shares
\* present and a risk-free rate for the row's calendar month
Obs ==
  {i \in DOMAIN crsp_df :
     /\ NotNa(crsp_df[i].ret) /\ NotNa(crsp_df[i].prc)
     /\ NotNa(crsp_df[i].shrout)
     /\ \E j \in DOMAIN ff_df :
           MonthIndex(ff_df[j].date) = MonthIndex(crsp_df[i].date)}

\* market value of fetched row i: |price| * shares
MktVal(i) == RMul(RAbs(crsp_df[i].prc), crsp_df[i].shrout)

\* observed rows of the same entity in earlier periods
ObsBefore(i) ==
  {j \in Obs : /\ crsp_df[j].permno = crsp_df[i].permno
               /\ MonthIndex(crsp_df[j].date) < MonthIndex(crsp_df[i].date)}

\* j is the observed period of i's entity just before i's
Consecutive(j, i) ==
  /\ j \in ObsBefore(i)
  /\ \A q \in ObsBefore(i) :
        MonthIndex(crsp_df[q].date) <= MonthIndex(crsp_df[j].date)

\* the rows of table t for fetched row i's entity and calendar month
RowsFor(t, i) ==
  {f \in DOMAIN t : /\ t[f].permno = crsp_df[i].permno
                    /\ MonthIndex(t[f].month) = MonthIndex(crsp_df[i].date)}

\* C8 as stated: for consecutive observed periods p1 < p2 of an entity the
\* lagged market value at p2 is m1, and the entity's first observed period
\* has a row in the output whose lagged market value is missing.
C8_FirstPeriodRowKept ==
  kpc = "done" =>
    \A i \in Obs :
       /\ \A j \in Obs : Consecutive(j, i) =>
             \E f \in RowsFor(final_df, i) : final_df[f].mktcap_lag = MktVal(j)
       /\ ObsBefore(i) = {} =>
             \E f \in RowsFor(final_df, i) : IsNaN(final_df[f].mktcap_lag)

\* C8 amended: for consecutive observed periods p1 < p2 of an entity the
\* lagged market value at p2 is m1; at the entity's first observed period
\* the shift leaves the lagged value missing, and the final dropna removes
\* that row, so the output holds no row for it.
C8_LagIsPreviousObserved ==
  /\ kpc = "lagged" =>
       \A i \in Obs :
          /\ Cardinality(RowsFor(kdf, i)) = 1
          /\ \A f \in RowsFor(kdf, i) :
               /\ kdf[f].mktcap = MktVal(i)
               /\ \A j \in Obs : Consecutive(j, i) => kdf[f].mktcap_lag = MktVal(j)
               /\ ObsBefore(i) = {} => IsNaN(kdf[f].mktcap_lag)
  /\ kpc = "done" =>
       \A i \in Obs :
          /\ ObsBefore(i) # {} =>
               /\ Cardinality(RowsFor(final_df, i)) = 1
               /\ \A f \in RowsFor(final_df, i), j \in Obs :
                     Consecutive(j, i) => final_df[f].mktcap_lag = MktVal(j)
          /\ ObsBefore(i) = {} => RowsFor(final_df, i) = {}

\* both entities observed, one of them in two periods: its later row is in
\* the output with a lag, its first row is not
C8_Witness ==
  /\ kpc = "done"
  /\ \E i, j, o \in Obs :
        /\ Consecutive(j, i)
        /\ crsp_df[o].permno # crsp_df[i].permno
        /\ RowsFor(final_df, i) # {}
        /\ RowsFor(final_df, j) = {}
        /\ \A f \in RowsFor(final_df, i) : final_df[f].mktcap_lag = MktVal(j)

\* C10: the lagged market value attached to entity e at period p is the
\* market value of e at the period exactly one calendar month before p;
\* across a gap in e's observed periods it is not taken from an older one.
C10_LagIsPreviousCalendarMonth ==
  kpc = "done" =>
    \A f \in DOMAIN final_df :
       \E j \in Obs :
          /\ crsp_df[j].permno = final_df[f].permno
          /\ MonthIndex(crsp_df[j].date) + 1 = MonthIndex(final_df[f].month)
          /\ final_df[f].mktcap_lag = MktVal(j)

----------------------------------------------------------------------------
(* The main block: connect, the three prepare_* calls, the three writes,   *)
(* the except clause and the finally clause.  Each call either returns or  *)
(* raises; `files` is the state of the three paths under OUTPUT_DIR, which *)
(* may hold files of an earlier run.                                       *)

OutputFiles == {"characteristics", "crsp", "macro"}

\* the statements of the try body in order, and what follows each
TrySteps == <<"connect", "prepare_characteristics", "prepare_crsp",
              "prepare_macro", "save_characteristics", "save_crsp",
              "save_macro">>

StepAfter(s) ==
  LET k == CHOOSE i \in DOMAIN TrySteps : TrySteps[i] = s
  IN  IF k = Len(TrySteps) THEN "finally" ELSE TrySteps[k + 1]

InitMain ==
  /\ pc = "connect" /\ db = "None" /\ caught = "none"
  /\ files \in [OutputFiles -> {"absent", "old"}]
  /\ IdleRank /\ IdleChar /\ IdleCrsp /\ IdleMacro

\* line 308: db = wrds.Connection()
Connect ==
  /\ pc = "connect"
  /\ \/ db' = "open" /\ pc' = StepAfter(pc) /\ UNCHANGED caught
     \/ pc' = "except" /\ caught' = pc /\ UNCHANGED db
  /\ UNCHANGED <<files, rankVars, charVars, crspVars, macroVars>>

\* lines 312-314: a prepare_* call returns its table or raises (a failed
\* download, query or parse)
Prepare ==
  /\ pc \in {"prepare_characteristics", "prepare_crsp", "prepare_macro"}
  /\ \/ pc' = StepAfter(pc) /\ UNCHANGED caught
     \/ pc' = "except" /\ caught' = pc
  /\ UNCHANGED <<db, files, rankVars, charVars, crspVars, macroVars>>

FileOf(s) == CASE s = "save_characteristics" -> "characteristics"
               [] s = "save_crsp" -> "crsp"
               [] s = "save_macro" -> "macro"

\* lines 318-320: to_parquet writes its path in place; a write that raises
\* leaves the path as it was or holding a truncated file
Save ==
  /\ pc \in {"save_characteristics", "save_crsp", "save_macro"}
  /\ \/ /\ files' = [files EXCEPT ![FileOf(pc)] = "new"]
        /\ pc' = StepAfter(pc) /\ UNCHANGED caught
     \/ /\ \E left \in {files[FileOf(pc)], "partial"} :
              files' = [files EXCEPT ![FileOf(pc)] = left]
        /\ pc' = "except" /\ caught' = pc
  /\ UNCHANGED <<db, rankVars, charVars, crspVars, macroVars>>

\* lines 323-324: the exception is printed and swallowed
Except ==
  /\ pc = "except"
  /\ pc' = "finally"
  /\ UNCHANGED <<db, files, caught, rankVars, charVars, crspVars, macroVars>>

\* lines 326-330: the connection, if one was made, is closed
Finally ==
  /\ pc = "finally"
  /\ db' = IF db = "open" THEN "closed" ELSE db
  /\ pc' = "end"
  /\ UNCHANGED <<files, caught, rankVars, charVars, crspVars, macroVars>>

NextMain == Connect \/ Prepare \/ Save \/ Except \/ Finally

SpecMain == InitMain /\ [][NextMain]_vars

\* the output files this run has written
Written == {f \in OutputFiles : files[f] = "new"}

\* C9: every run of the main block ends with all three output files
\* written or none: whatever step fails, never a strict non-empty subset.
C9_AllOrNothing ==
  pc = "end" => (Written = {} \/ Written = OutputFiles)

====
